---- MODULE Spec2Model ----
(***************************************************************************)
(* A model of the goscript front end: the type checker's object arena      *)
(* (types/src/objects.rs), packages (types/src/package.rs), the checker    *)
(* and its result store (types/src/check/check.rs) and the parser's        *)
(* scoping support (src/parser.rs).                                        *)
(*                                                                         *)
(* Arena keys (slotmap keys, arena indices) are modelled as 1-based        *)
(* indices into sequences; nothing is ever removed from an arena, so a key *)
(* is the position at which the entity was inserted.  Option<Key> is a key *)
(* or None; Option<Value> is the empty sequence or a one-element sequence. *)
(* A string is the sequence of its words, blanks and punctuation marks.    *)
(***************************************************************************)
EXTENDS Integers, Sequences, FiniteSets, TLC

VARIABLES
    scopes,     \* TCObjects.scopes: arena of Scope
    pkgs,       \* TCObjects.pkgs: arena of Package
    lobjs,      \* TCObjects.lobjs: arena of LangObj
    types,      \* TCObjects.types: arena of Type
    decl_infos, \* TCObjects.decls: arena of DeclInfo
    checker,    \* the Checker: pkg and obj_map
    errors,     \* Checker.errors: the hard error list
    result,     \* Checker.result: the TypeInfo
    octx,       \* the ObjContext of the object being type-checked
    call,       \* the last operation performed, its arguments and its result
    panicked,   \* TRUE once an assertion or unwrap has panicked
    parser      \* the Parser, with its Objects arena and its error list

arenaVars == <<scopes, pkgs, lobjs, types, decl_infos>>
checkerVars == <<checker, errors, result, octx>>
vars ==
    <<scopes, pkgs, lobjs, types, decl_infos, checker, errors, result, octx, call,
      panicked, parser>>

----------------------------------------------------------------------------
(* Bounds of the model *)

MaxScopes == 5
MaxPkgs == 2
MaxFiles == 3
MaxErrors == 1
MaxObjs == 3
FileSize == 100
MaxParen == 2
MaxTypes == 3
LineLen == 3
SrcLen == 2
MaxIdents == 2
MaxEntities == 2
MaxParserScopes == 1
MaxParserErrors == 1
MaxDeclIdents == 2
MaxLhsIdents == 5
MaxStmts == 3
MaxDecls == 2
MaxNodes == 1
SyncSrcLen == 3
MaxBase == 2
MaxFileSize == 3
MaxLabelScopes == 2
MaxTargets == 2

----------------------------------------------------------------------------
(* Option and small helpers *)

None == 0

NoValue == <<>>

Some(v) == <<v>>

IsSome(o) == o # <<>>

Range(s) == {s[i] : i \in DOMAIN s}

SeqsUpTo(S, n) == UNION {[1..k -> S] : k \in 0..n}

NoCall == [op |-> "none"]

\* no Checker has been constructed yet
NoChecker == [pkg |-> None, obj_map |-> <<>>]

\* the ObjContext outside of any package-level declaration: its decl is None
ObjContextNew == [decl |-> None]

\* TypeInfo::new: the six maps and init_order, all empty
TypeInfoNew ==
    [types |-> <<>>, defs |-> <<>>, uses |-> <<>>, implicits |-> <<>>,
     selections |-> <<>>, scopes |-> <<>>, init_order |-> <<>>]

\* Token::ILLEGAL("")
ILLEGAL == [kind |-> "ILLEGAL", lit |-> ""]

\* Objects::new and Parser::new
ParserNew ==
    [objects |-> [idents |-> <<>>, entities |-> <<>>, scopes |-> <<>>,
                  specs |-> <<>>],
     errors |-> <<>>,
     trace |-> TRUE, indent |-> 0,
     pos |-> 0, token |-> ILLEGAL,
     sync_pos |-> 0, sync_count |-> 0,
     expr_level |-> 0, in_rhs |-> FALSE,
     pkg_scope |-> None, top_scope |-> None,
     unresolved |-> <<>>, imports |-> <<>>,
     label_scope |-> None, target_stack |-> <<>>]

----------------------------------------------------------------------------
(* types/src/objects.rs, types/src/package.rs *)

PkgNames == {"a", "b", "_"}

\* the top-level identifiers the files declare, one each
TopLevelNames == <<"x", "y", "z">>

\* Scope::new(parent, pos, end, comment): no children, no bindings
ScopeNew(parent) == [parent |-> parent, children |-> <<>>, elems |-> <<>>]

\* Scope::add_child
add_child(scope, child) == [scope EXCEPT !.children = Append(@, child)]

\* Package::new
PackageNew(path, name, scope) ==
    [path |-> path, name |-> name, scope |-> scope, complete |-> FALSE,
     imports |-> <<>>, fake |-> FALSE]

\* the key TCObjects::new gives the universe scope: the first one inserted
UniverseScope == 1

\* TCObjects::new: the universe scope, and package unsafe with its scope
TCObjectsNewScopes == <<ScopeNew(None), ScopeNew(UniverseScope)>>

TCObjectsNewPkgs == <<PackageNew("unsafe", "unsafe", 2)>>

\* the key TCObjects::new gives package unsafe
UnsafePkg == 1

\* TCObjects::new_scope: the arena after the call and the key returned.
\* `if let Some(skey) = parent` shadows the new scope's key inside the
\* block, so the scope indexed and the child added are both the parent.
new_scope(scs, parent) ==
    LET skey == Len(scs) + 1
        inserted == Append(scs, ScopeNew(parent))
        after == IF parent # None
                 THEN LET skey_in == parent
                      IN  IF skey_in # UniverseScope
                          THEN [inserted EXCEPT
                                  ![skey_in] = add_child(@, skey_in)]
                          ELSE inserted
                 ELSE inserted
    IN  [scopes |-> after, key |-> skey]

\* TCObjects::new_package: the arenas after the call and the key returned
new_package(scs, ps, path, name) ==
    LET s == new_scope(scs, UniverseScope)
    IN  [scopes |-> s.scopes,
         pkgs |-> Append(ps, PackageNew(path, name, s.key)),
         key |-> Len(ps) + 1]

\* Package::set_name
set_name(pkg, name) == [pkg EXCEPT !.name = name]

\* Package::set_imports
set_imports(pkg, list) == [pkg EXCEPT !.imports = list]

\* a mark_complete that flips the flag
mark_complete_flip(pkg) == [pkg EXCEPT !.complete = ~@]

\* Package::mark_complete
mark_complete(pkg) == [pkg EXCEPT !.complete = TRUE]

----------------------------------------------------------------------------
(* The arena on its own: TCObjects::new, then new_scope and new_package *)

ArenaInit ==
    /\ scopes = TCObjectsNewScopes
    /\ pkgs = TCObjectsNewPkgs
    /\ lobjs = <<>>
    /\ decl_infos = <<>>
    /\ octx = ObjContextNew
    /\ types = <<>>
    /\ checker = NoChecker
    /\ errors = <<>>
    /\ result = TypeInfoNew
    /\ call = NoCall
    /\ panicked = FALSE
    /\ parser = ParserNew

NewScope ==
    /\ Len(scopes) < MaxScopes
    /\ \E parent \in {None} \cup (1..Len(scopes)) :
         LET r == new_scope(scopes, parent)
         IN  /\ scopes' = r.scopes
             /\ call' = [op |-> "new_scope", parent |-> parent, ret |-> r.key]
    /\ UNCHANGED <<pkgs, lobjs, types, decl_infos, checkerVars, panicked, parser>>

NewPackage ==
    /\ Len(scopes) < MaxScopes
    /\ Len(pkgs) < MaxPkgs
    /\ \E name \in {"a"} :
         LET r == new_package(scopes, pkgs, name, name)
         IN  /\ scopes' = r.scopes
             /\ pkgs' = r.pkgs
             /\ call' = [op |-> "new_package", name |-> name, ret |-> r.key]
    /\ UNCHANGED <<lobjs, types, decl_infos, checkerVars, panicked, parser>>

ArenaNext == NewScope \/ NewPackage

SpecArena == ArenaInit /\ [][ArenaNext]_vars

\* Is scope a a proper ancestor of scope s (following parent at most n times)?
RECURSIVE IsAncestor(_, _, _)
IsAncestor(a, s, n) ==
    IF n = 0 \/ scopes[s].parent = None THEN FALSE
    ELSE scopes[s].parent = a \/ IsAncestor(a, scopes[s].parent, n - 1)

\* C7: new_scope(parent = P) returns the key K of a freshly inserted scope
\* whose parent is P; if P is a scope other than the universe scope, K and
\* nothing else is appended to P's child list; otherwise no child list
\* changes.
C7_NewScopeRegistersChild ==
    [][call'.op = "new_scope" =>
        LET P == call'.parent
            K == call'.ret
        IN  /\ K = Len(scopes) + 1
            /\ Len(scopes') = Len(scopes) + 1
            /\ scopes'[K] = ScopeNew(P)
            /\ \A s \in 1..Len(scopes) :
                 /\ scopes'[s].parent = scopes[s].parent
                 /\ scopes'[s].children =
                      IF s = P /\ P # UniverseScope
                      THEN Append(scopes[s].children, K)
                      ELSE scopes[s].children]_vars

\* C8: the scopes form a strict tree: the universe scope is the only scope
\* with no parent, every package's scope has the universe scope as parent,
\* no scope is its own child or ancestor, and every child-list entry C of a
\* scope S satisfies parent(C) = S.
C8_ScopesFormStrictTree ==
    /\ \A s \in 1..Len(scopes) : scopes[s].parent = None <=> s = UniverseScope
    /\ \A p \in 1..Len(pkgs) : scopes[pkgs[p].scope].parent = UniverseScope
    /\ \A s \in 1..Len(scopes) :
         /\ s \notin Range(scopes[s].children)
         /\ ~IsAncestor(s, s, Len(scopes))
         /\ \A i \in 1..Len(scopes[s].children) :
              scopes[scopes[s].children[i]].parent = s


----------------------------------------------------------------------------
(* types/src/check/check.rs: Checker::check *)

\* Checker::new: the checker's own fields (the arena and the error lists
\* are borrowed from the caller)
CheckerNew(pkg) == [pkg |-> pkg, obj_map |-> <<>>]

\* Result<_, ()>
Err == [ok |-> FALSE]

Ok(v) == [ok |-> TRUE, val |-> v]

\* Checker::error / error_impl: the entry added to the hard error list
Diag(pos, msg) == [pos |-> pos, msg |-> msg]

\* the i-th parsed file of a package: the position of its package clause
\* and its package-name identifier, which follows the keyword `package `
PackagePos(i) == (i - 1) * FileSize + 1

ParsedFile(i, name) ==
    [package |-> PackagePos(i),
     name |-> [name |-> name, pos |-> PackagePos(i) + 8],
     decls |-> <<TopLevelNames[((i - 1) % Len(TopLevelNames)) + 1]>>]

\* the file lists check() is called with
FileLists ==
    UNION {{[i \in 1..k |-> ParsedFile(i, ns[i])] : ns \in [1..k -> PkgNames]} :
           k \in 0..MaxFiles}

\* a test for the blank identifier that never finds it
IsBlankNameNever(name) == FALSE

\* line 446: the blank identifier is not a package name
IsBlankName(name) == name = "_"

\* line 447: the message for a blank package name
InvalidNameMsg == <<"invalid", " ", "package", " ", "name", " ", "_">>

\* a mismatch message with its two names exchanged
MismatchMsgSwapped(name, pkg_name) ==
    <<"package", " ", pkg_name, ";", " ", "expected", " ", name>>

\* lines 458-462: format!("package {}; expected {}", ident.name, pkg_name)
MismatchMsg(name, pkg_name) ==
    <<"package", " ", name, ";", " ", "expected", " ", pkg_name>>

\* Checker::init_files_pkg_name, the loop from file i on: result and
\* pkg_name are the loop's variables.  It yields Ok(result) or Err, the
\* diagnostics reported, the files pushed to result when the loop ended and
\* the number of files the loop looked at.
RECURSIVE init_files_loop(_, _, _, _)
init_files_loop(files, i, res, pkg_name) ==
    IF i > Len(files)
    THEN [ret |-> Ok(res), accepted |-> res, errs |-> <<>>,
          examined |-> i - 1]
    ELSE LET f == files[i]
             ident == f.name
         IN  IF ~IsSome(pkg_name)
             THEN IF IsBlankName(ident.name)
                  THEN [ret |-> Err, accepted |-> res,
                        errs |-> <<Diag(ident.pos, InvalidNameMsg)>>,
                        examined |-> i]
                  ELSE init_files_loop(files, i + 1, Append(res, f),
                                       Some(ident.name))
             ELSE IF ident.name = pkg_name[1]
                  THEN init_files_loop(files, i + 1, Append(res, f), pkg_name)
                  ELSE [ret |-> Err, accepted |-> res,
                        errs |-> <<Diag(f.package,
                                        MismatchMsg(ident.name, pkg_name[1]))>>,
                        examined |-> i]

init_files_pkg_name(files) == init_files_loop(files, 1, <<>>, NoValue)

\* Scope::insert: binds name unless it is already bound in this scope
scope_insert(scope, name, obj) ==
    IF name \in DOMAIN scope.elems THEN scope
    ELSE [scope EXCEPT !.elems = (name :> obj) @@ @]

\* Checker::collect_objects: every top-level identifier of every file gets
\* an object in the arena, is inserted into the package scope and is
\* tracked in obj_map.  st is [scopes, lobjs, obj_map].
RECURSIVE collect_decls(_, _, _, _, _)
collect_decls(st, pkg_scope, f, decls, j) ==
    IF j > Len(decls) THEN st
    ELSE LET okey == Len(st.lobjs) + 1
             lobj == [name |-> decls[j], pos |-> f.package + 20 + j]
         IN  collect_decls(
                 [scopes |-> [st.scopes EXCEPT ![pkg_scope] =
                                scope_insert(@, decls[j], okey)],
                  lobjs |-> Append(st.lobjs, lobj),
                  obj_map |-> (okey :> okey) @@ st.obj_map],
                 pkg_scope, f, decls, j + 1)

RECURSIVE collect_objects(_, _, _, _)
collect_objects(st, pkg_scope, files, i) ==
    IF i > Len(files) THEN st
    ELSE collect_objects(
             collect_decls(st, pkg_scope, files[i], files[i].decls, 1),
             pkg_scope, files, i + 1)

\* Checker::check: `?` returns the failure of init_files_pkg_name at once;
\* otherwise the objects are collected and the function ends in Err(()).
check(files) ==
    LET r == init_files_pkg_name(files)
        st0 == [scopes |-> scopes, lobjs |-> lobjs,
                obj_map |-> checker.obj_map]
    IN  IF ~r.ret.ok
        THEN [ret |-> Err, errs |-> r.errs, st |-> st0,
              accepted |-> r.accepted, examined |-> r.examined]
        ELSE [ret |-> Err, errs |-> r.errs,
              st |-> collect_objects(st0, pkgs[checker.pkg].scope,
                                     r.ret.val, 1),
              accepted |-> r.accepted, examined |-> r.examined]


----------------------------------------------------------------------------
(* A checker over the arena: a checker is made for a package and check()  *)
(* is called on lists of files                                            *)

CheckInit ==
    LET r == new_package(TCObjectsNewScopes, TCObjectsNewPkgs, "a", "a")
    IN  /\ scopes = r.scopes
        /\ pkgs = r.pkgs
        /\ lobjs = <<>>
        /\ decl_infos = <<>>
        /\ octx = ObjContextNew
        /\ types = <<>>
        /\ checker = NoChecker
        /\ errors = <<>>
        /\ result = TypeInfoNew
        /\ call = NoCall
        /\ panicked = FALSE
        /\ parser = ParserNew

PackageInit ==
    /\ scopes = TCObjectsNewScopes
    /\ pkgs = TCObjectsNewPkgs
    /\ lobjs = <<>>
    /\ decl_infos = <<>>
    /\ octx = ObjContextNew
    /\ types = <<>>
    /\ checker = NoChecker
    /\ errors = <<>>
    /\ result = TypeInfoNew
    /\ call = NoCall
    /\ panicked = FALSE
    /\ parser = ParserNew

SetName ==
    /\ \E p \in 1..Len(pkgs), name \in {"b"} :
         /\ pkgs' = [pkgs EXCEPT ![p] = set_name(@, name)]
         /\ call' = [op |-> "set_name", pkg |-> p, name |-> name]
    /\ UNCHANGED <<scopes, lobjs, types, decl_infos, checkerVars, panicked, parser>>

SetImports ==
    /\ \E p \in 1..Len(pkgs), list \in {<<>>, <<UnsafePkg>>} :
         /\ pkgs' = [pkgs EXCEPT ![p] = set_imports(@, list)]
         /\ call' = [op |-> "set_imports", pkg |-> p, list |-> list]
    /\ UNCHANGED <<scopes, lobjs, types, decl_infos, checkerVars, panicked, parser>>

MarkComplete ==
    /\ \E p \in 1..Len(pkgs) :
         /\ pkgs' = [pkgs EXCEPT ![p] = mark_complete(@)]
         /\ call' = [op |-> "mark_complete", pkg |-> p]
    /\ UNCHANGED <<scopes, lobjs, types, decl_infos, checkerVars, panicked, parser>>

NewChecker ==
    /\ checker = NoChecker
    /\ \E p \in 1..Len(pkgs) :
         /\ checker' = CheckerNew(p)
         /\ call' = [op |-> "Checker::new", pkg |-> p]
    /\ result' = TypeInfoNew
    /\ UNCHANGED <<arenaVars, errors, octx, panicked, parser>>

CheckOn(lists) ==
    /\ checker # NoChecker
    /\ Len(errors) < MaxErrors
    /\ \E files \in lists :
         LET r == check(files)
         IN  /\ Len(r.st.lobjs) <= MaxObjs
             /\ scopes' = r.st.scopes
             /\ lobjs' = r.st.lobjs
             /\ checker' = [checker EXCEPT !.obj_map = r.st.obj_map]
             /\ errors' = errors \o r.errs
             /\ call' = [op |-> "check", files |-> files, ret |-> r.ret,
                         accepted |-> r.accepted, examined |-> r.examined]
    /\ UNCHANGED <<pkgs, types, decl_infos, result, octx, panicked, parser>>

Check == CheckOn(FileLists)

CheckNext == NewChecker \/ Check

SpecCheck == CheckInit /\ [][CheckNext]_vars

----------------------------------------------------------------------------
(* The operations of Package, interleaved with check() on single files *)

CheckOneFile == CheckOn({fl \in FileLists : Len(fl) <= 1})

PackageNext ==
    \/ NewPackage
    \/ SetName
    \/ SetImports
    \/ MarkComplete
    \/ NewChecker
    \/ CheckOneFile

SpecPackage == PackageInit /\ [][PackageNext]_vars

----------------------------------------------------------------------------
(* Claims about check() *)

\* does the text t contain the text q?
Quotes(t, q) ==
    \E i \in 1..(Len(t) - Len(q) + 1) : SubSeq(t, i, i + Len(q) - 1) = q

PkgNameOf(files, i) == files[i].name.name

HasMismatch(files) ==
    \E i \in 1..Len(files) : PkgNameOf(files, i) # PkgNameOf(files, 1)

FirstMismatch(files) ==
    CHOOSE k \in 1..Len(files) :
        /\ PkgNameOf(files, k) # PkgNameOf(files, 1)
        /\ \A i \in 1..(k - 1) : PkgNameOf(files, i) = PkgNameOf(files, 1)

\* C1: for a non-empty list of files that all declare the same non-blank
\* package name, check() returns success carrying the checker's own package
\* key.
C1_CheckReturnsPackageKey ==
    (/\ call.op = "check"
     /\ Len(call.files) > 0
     /\ PkgNameOf(call.files, 1) # "_"
     /\ ~HasMismatch(call.files))
    => call.ret = Ok(checker.pkg)

\* C2 as stated: whenever some file declares a name b different from the
\* first file's name a, check() fails, stops at the first such file and
\* records exactly one diagnostic at that file's package clause whose
\* message states "expected a, found b"; the files before it are accepted
\* and the files after it are not examined.
C2_MismatchExpectedFound ==
    [][(call'.op = "check" /\ HasMismatch(call'.files)) =>
        LET files == call'.files
            k == FirstMismatch(files)
            a == PkgNameOf(files, 1)
            b == PkgNameOf(files, k)
        IN  /\ ~call'.ret.ok
            /\ call'.examined = k
            /\ call'.accepted = SubSeq(files, 1, k - 1)
            /\ Len(errors') = Len(errors) + 1
            /\ SubSeq(errors', 1, Len(errors)) = errors
            /\ errors'[Len(errors')].pos = files[k].package
            /\ Quotes(errors'[Len(errors')].msg,
                      <<"expected", " ", a, ",", " ", "found", " ", b>>)]_vars

\* C2 amended: whenever the first file declares a non-blank name a and some
\* file declares a different name b, check() fails, stops at the first such
\* file and records exactly one diagnostic at that file's package clause,
\* with the message "package b; expected a"; the files before it are
\* accepted and the files after it are not examined.
C2_MismatchPackageExpected ==
    [][(/\ call'.op = "check"
        /\ HasMismatch(call'.files)
        /\ PkgNameOf(call'.files, 1) # "_") =>
        LET files == call'.files
            k == FirstMismatch(files)
            a == PkgNameOf(files, 1)
            b == PkgNameOf(files, k)
        IN  /\ ~call'.ret.ok
            /\ call'.examined = k
            /\ call'.accepted = SubSeq(files, 1, k - 1)
            /\ errors' = Append(errors,
                   [pos |-> files[k].package,
                    msg |-> <<"package", " ", b, ";", " ", "expected", " ",
                              a>>])]_vars

\* a check() of three files has failed on the second, which declares another
\* name than the first
C2_Witness ==
    /\ call.op = "check"
    /\ Len(call.files) = MaxFiles
    /\ PkgNameOf(call.files, 1) = "a"
    /\ PkgNameOf(call.files, 2) = "b"
    /\ call.examined = 2
    /\ Len(errors) = 1

\* C3: if the package name is the blank identifier, check() fails at once:
\* one hard diagnostic is recorded, no package key is returned, the result
\* store stays empty and no declaration is collected into the package scope
\* or the arena.  (The same holds wherever in the list the blank name
\* stands; in the first file it is reported as an invalid package name.)
C3_BlankPackageNameFails ==
    [][(/\ call'.op = "check"
        /\ \E i \in 1..Len(call'.files) : PkgNameOf(call'.files, i) = "_") =>
        /\ ~call'.ret.ok
        /\ Len(errors') = Len(errors) + 1
        /\ SubSeq(errors', 1, Len(errors)) = errors
        /\ PkgNameOf(call'.files, 1) = "_" =>
             /\ call'.examined = 1
             /\ call'.accepted = <<>>
             /\ errors'[Len(errors')] =
                  [pos |-> call'.files[1].name.pos,
                   msg |-> <<"invalid", " ", "package", " ", "name", " ",
                             "_">>]
        /\ result' = TypeInfoNew
        /\ \A m \in DOMAIN result' : Len(result'[m]) = 0
        /\ scopes' = scopes
        /\ lobjs' = lobjs
        /\ checker'.obj_map = checker.obj_map]_vars

\* a check() of several files, the first of which declares package _, has
\* failed
C3_Witness ==
    /\ call.op = "check"
    /\ Len(call.files) > 1
    /\ PkgNameOf(call.files, 1) = "_"
    /\ ~call.ret.ok
    /\ Len(errors) = 1

\* C9: a package's completeness flag is false when the package is created
\* and, over any sequence of Package operations and check() calls, never
\* returns from true to false (so it changes at most once).
C9_CompleteNeverReverts ==
    [][/\ Len(pkgs') >= Len(pkgs)
       /\ \A p \in 1..Len(pkgs) : pkgs[p].complete => pkgs'[p].complete
       /\ \A p \in (Len(pkgs) + 1)..Len(pkgs') : ~pkgs'[p].complete]_vars

\* check() has run for a package that was marked complete before
C9_Witness ==
    /\ call.op = "check"
    /\ checker.pkg > UnsafePkg
    /\ pkgs[checker.pkg].complete
    /\ pkgs[checker.pkg].name = "b"


----------------------------------------------------------------------------
(* types/src/check/check.rs: TypeInfo's recording functions *)

\* The expressions recorded: an identifier and an index expression, each
\* also wrapped in 1..MaxParen pairs of parentheses.  An expression is
\* identified with its node id; the node of depth d wraps that of depth d-1.
BaseKinds == <<"Ident", "Index">>

ExprIds == 1..(Len(BaseKinds) * (MaxParen + 1))

ExprDepth(e) == (e - 1) % (MaxParen + 1)

ExprBase(e) == ((e - 1) \div (MaxParen + 1)) + 1

\* the variant of Expr: Expr::Paren, or the variant of the innermost node
ExprKind(e) == IF ExprDepth(e) > 0 THEN "Paren" ELSE BaseKinds[ExprBase(e)]

\* (*p).expr of an Expr::Paren(p)
ParenExpr(e) == e - 1

\* Expr::pos: an opening parenthesis stands before what it encloses
ExprPos(e) == ExprBase(e) * FileSize - ExprDepth(e)

\* e and every expression obtained by unwrapping parentheses from it
Unwrapped(e) == {x \in ExprIds : ExprBase(x) = ExprBase(e) /\ x <= e}

\* OperandMode (the modes used here)
OperandModes == {"Invalid", "Builtin", "CommaOk"}

\* the types in the arena before anything is recorded
BasicTypes == <<[tag |-> "Basic", name |-> "int"],
                [tag |-> "Basic", name |-> "bool"]>>

\* the pairs of types of a comma-ok expression: a value type and bool
CommaOkPairs == {<<1, 2>>}

\* TypeAndValue::new
TypeAndValueNew(mode, typ, val) == [mode |-> mode, typ |-> typ, val |-> val]

\* TypeInfo::record_type_and_value on the types map tmap: the map after the
\* call and whether the call panicked
record_type_and_value(tmap, e, mode, typ, val) ==
    IF ~IsSome(val) THEN [panic |-> TRUE, types |-> tmap]
    ELSE IF mode = "Invalid" THEN [panic |-> FALSE, types |-> tmap]
    ELSE [panic |-> FALSE,
          types |-> [x \in DOMAIN tmap \cup {e} |->
                       IF x = e THEN TypeAndValueNew(mode, typ, val)
                       ELSE tmap[x]]]

\* TypeInfo::record_builtin_type, the loop from expr on
RECURSIVE record_builtin_type(_, _, _)
record_builtin_type(tmap, expr, sig) ==
    LET r == record_type_and_value(tmap, expr, "Builtin", sig, NoValue)
    IN  IF r.panic THEN r
        ELSE IF ExprKind(expr) = "Ident" THEN r
        ELSE IF ExprKind(expr) = "Paren"
             THEN record_builtin_type(r.types, ParenExpr(expr), sig)
        ELSE [panic |-> TRUE, types |-> r.types]

\* LangObj::new_var(pos, pkg, name, typ)
new_var(pos, pkg, name, typ) ==
    [kind |-> "Var", pos |-> pos, pkg |-> pkg, name |-> name, typ |-> typ]

\* a comma_ok_type that takes the two types in the wrong order
comma_ok_type_swapped(st, pkg, e, t) ==
    LET pos == ExprPos(e)
        v1 == Len(st.lobjs) + 1
        v2 == Len(st.lobjs) + 2
    IN  [st EXCEPT
           !.lobjs = @ \o <<new_var(pos, pkg, "", t[2]),
                            new_var(pos, pkg, "", t[1])>>,
           !.types = Append(@, [tag |-> "Tuple", vars |-> <<v1, v2>>]),
           !.key = Len(st.types) + 1]

\* Checker::comma_ok_type: two variables and a tuple of them are inserted
\* into the arena st = [lobjs, types, ..]; the tuple's key is left in st.key
comma_ok_type(st, pkg, e, t) ==
    LET pos == ExprPos(e)
        v1 == Len(st.lobjs) + 1
        v2 == Len(st.lobjs) + 2
    IN  [st EXCEPT
           !.lobjs = @ \o <<new_var(pos, pkg, "", t[1]),
                            new_var(pos, pkg, "", t[2])>>,
           !.types = Append(@, [tag |-> "Tuple", vars |-> <<v1, v2>>]),
           !.key = Len(st.types) + 1]

\* TypeInfo::record_comma_ok_types, the loop from expr on;
\* st = [tmap, lobjs, types, key, panic]
RECURSIVE record_comma_ok_types(_, _, _, _)
record_comma_ok_types(st, pkg, expr, t) ==
    IF expr \notin DOMAIN st.tmap THEN [st EXCEPT !.panic = TRUE]
    ELSE IF ~IsSome(st.tmap[expr].val) THEN [st EXCEPT !.panic = TRUE]
    ELSE LET c == comma_ok_type(st, pkg, expr, t)
             st1 == [c EXCEPT !.tmap[expr].typ = c.key]
         IN  IF ExprKind(expr) = "Paren"
             THEN record_comma_ok_types(st1, pkg, ParenExpr(expr), t)
             ELSE st1

----------------------------------------------------------------------------
(* The result store: a checker for a new package records types *)

InfoInit ==
    LET r == new_package(TCObjectsNewScopes, TCObjectsNewPkgs, "a", "a")
    IN  /\ scopes = r.scopes
        /\ pkgs = r.pkgs
        /\ lobjs = <<>>
        /\ decl_infos = <<>>
        /\ octx = ObjContextNew
        /\ types = BasicTypes
        /\ checker = CheckerNew(r.key)
        /\ errors = <<>>
        /\ result = TypeInfoNew
        /\ call = NoCall
        /\ panicked = FALSE
        /\ parser = ParserNew
    /\ parser = ParserNew

RecordTypeAndValue ==
    /\ ~panicked
    /\ \E e \in ExprIds, mode \in OperandModes \ {"Builtin"},
          typ \in {1}, val \in {NoValue, Some(0)} :
         LET r == record_type_and_value(result.types, e, mode, typ, val)
         IN  /\ result' = [result EXCEPT !.types = r.types]
             /\ panicked' = r.panic
             /\ call' = [op |-> "record_type_and_value", e |-> e,
                         mode |-> mode, typ |-> typ, val |-> val]
    /\ UNCHANGED <<arenaVars, checker, errors, octx, parser>>

RecordBuiltinType ==
    /\ ~panicked
    /\ \E e \in ExprIds, sig \in 1..Len(BasicTypes) :
         LET r == record_builtin_type(result.types, e, sig)
         IN  /\ result' = [result EXCEPT !.types = r.types]
             /\ panicked' = r.panic
             /\ call' = [op |-> "record_builtin_type", e |-> e, sig |-> sig]
    /\ UNCHANGED <<arenaVars, checker, errors, octx, parser>>

RecordCommaOkTypes ==
    /\ ~panicked
    /\ Len(types) < MaxTypes
    /\ \E e \in ExprIds, t \in CommaOkPairs :
         LET r == record_comma_ok_types(
                      [tmap |-> result.types, lobjs |-> lobjs,
                       types |-> types, key |-> None, panic |-> FALSE],
                      checker.pkg, e, t)
         IN  /\ result' = [result EXCEPT !.types = r.tmap]
             /\ lobjs' = r.lobjs
             /\ types' = r.types
             /\ panicked' = r.panic
             /\ call' = [op |-> "record_comma_ok_types", e |-> e, t |-> t]
    /\ UNCHANGED <<scopes, pkgs, decl_infos, checker, errors, octx, parser>>

InfoNext == RecordTypeAndValue \/ RecordBuiltinType \/ RecordCommaOkTypes

SpecInfo == InfoInit /\ [][InfoNext]_vars


----------------------------------------------------------------------------
(* Claims about the recording functions *)

\* C4: record_builtin_type(e, sig), for e an identifier in n >= 0 pairs of
\* parentheses, completes normally and leaves in the types map an entry
\* with mode Builtin and the signature sig for the identifier and for each
\* of the n parenthesized expressions around it.
C4_BuiltinTypeRecorded ==
    (call.op = "record_builtin_type" /\ BaseKinds[ExprBase(call.e)] = "Ident")
    => /\ ~panicked
       /\ \A x \in Unwrapped(call.e) :
            /\ x \in DOMAIN result.types
            /\ result.types[x].mode = "Builtin"
            /\ result.types[x].typ = call.sig

\* C5: record_type_and_value with the Invalid mode is ignored whatever the
\* type and value are (an absent value included): it returns normally and
\* the types map is unchanged; with any other mode and a value slot
\* supplied, exactly the entry of the expression's node is created or
\* replaced.
C5_InvalidModeIgnored ==
    [][call'.op = "record_type_and_value" =>
        LET c == call'
        IN  IF c.mode = "Invalid"
            THEN ~panicked' /\ result'.types = result.types
            ELSE IsSome(c.val) =>
                   /\ ~panicked'
                   /\ DOMAIN result'.types = DOMAIN result.types \cup {c.e}
                   /\ result'.types[c.e] =
                        [mode |-> c.mode, typ |-> c.typ, val |-> c.val]
                   /\ \A x \in DOMAIN result.types \ {c.e} :
                        result'.types[x] = result.types[x]]_vars

\* the type k of the arena is a tuple of two variables of the types t[1] and
\* t[2], in this order
IsTupleOf(ts, os, k, t) ==
    /\ k \in 1..Len(ts)
    /\ ts[k].tag = "Tuple"
    /\ Len(ts[k].vars) = 2
    /\ \A i \in 1..2 :
         /\ ts[k].vars[i] \in 1..Len(os)
         /\ os[ts[k].vars[i]].kind = "Var"
         /\ os[ts[k].vars[i]].typ = t[i]

\* what record_comma_ok_types leaves alone: the mode and the value of the
\* entries of e and of the expressions unwrapped from it, and all of every
\* other entry
CommaOkFrame(e) ==
    /\ ~panicked'
    /\ DOMAIN result'.types = DOMAIN result.types
    /\ \A x \in Unwrapped(e) :
         /\ result'.types[x].mode = result.types[x].mode
         /\ result'.types[x].val = result.types[x].val
    /\ \A x \in DOMAIN result.types \ Unwrapped(e) :
         result'.types[x] = result.types[x]

\* C6 as stated: record_comma_ok_types(e, [t0, t1]), for e recorded together
\* with every expression unwrapped from it, rewrites the recorded type of
\* all of them to the same result type built from (t0, t1), leaving mode and
\* value unchanged and touching no other entry.
C6_CommaOkSameType ==
    [][(/\ call'.op = "record_comma_ok_types"
        /\ Unwrapped(call'.e) \subseteq DOMAIN result.types) =>
        /\ CommaOkFrame(call'.e)
        /\ \A x \in Unwrapped(call'.e) :
             /\ IsTupleOf(types', lobjs', result'.types[x].typ, call'.t)
             /\ result'.types[x].typ = result'.types[call'.e].typ]_vars

\* C6 amended: each of e and the expressions unwrapped from it gets a result
\* type of its own: a tuple newly inserted into the arena, different from
\* the tuple of every other of these expressions, of two new variables of
\* the types t0 and t1 placed at that expression's position in the
\* checker's package; mode and value stay and no other entry and no older
\* type or object is touched.
C6_CommaOkFreshTuples ==
    [][(/\ call'.op = "record_comma_ok_types"
        /\ Unwrapped(call'.e) \subseteq DOMAIN result.types) =>
        /\ CommaOkFrame(call'.e)
        /\ SubSeq(types', 1, Len(types)) = types
        /\ SubSeq(lobjs', 1, Len(lobjs)) = lobjs
        /\ Len(types') = Len(types) + Cardinality(Unwrapped(call'.e))
        /\ \A x \in Unwrapped(call'.e) :
             LET k == result'.types[x].typ
             IN  /\ k > Len(types)
                 /\ IsTupleOf(types', lobjs', k, call'.t)
                 /\ \A i \in 1..2 :
                      /\ types'[k].vars[i] > Len(lobjs)
                      /\ lobjs'[types'[k].vars[i]] =
                           [kind |-> "Var", pos |-> ExprPos(x),
                            pkg |-> checker.pkg, name |-> "",
                            typ |-> call'.t[i]]
                 /\ \A y \in Unwrapped(call'.e) \ {x} :
                      result'.types[y].typ # k]_vars

\* record_comma_ok_types has rewritten the types of a parenthesized
\* expression and of what it encloses, with two different types
C6_Witness ==
    /\ call.op = "record_comma_ok_types"
    /\ ~panicked
    /\ ExprDepth(call.e) > 0
    /\ call.t[1] # call.t[2]
    /\ \A x \in Unwrapped(call.e) :
         /\ x \in DOMAIN result.types
         /\ IsTupleOf(types, lobjs, result.types[x].typ, call.t)


----------------------------------------------------------------------------
(* src/parser.rs: the parser's state and scoping support *)

\* IdentEntity::NoEntity and IdentEntity::Sentinel; IdentEntity::Entity(k)
\* is the entity's key k
NoEntity == 0

Sentinel == -1

\* DeclObj::NoDecl; any other DeclObj is the key of a declaration node
NoDecl == 0

\* Token: the tokens the scanner delivers here
IdentNames == {"x", "y", "_"}

EOF == [kind |-> "EOF", lit |-> ""]

IDENT(lit) == [kind |-> "IDENT", lit |-> lit]

SourceTokens == {IDENT(n) : n \in IdentNames}

\* Token::token_text and the Display of a token
TokenText(tok) ==
    CASE tok.kind = "IDENT" -> "IDENT"
      [] tok.kind = "VAR" -> "var"
      [] tok.kind = "EOF" -> "EOF"
      [] OTHER -> "ILLEGAL"

\* the file parsed: add_file(.., "testfile1.gs", 0, size), with lines of
\* LineLen characters
FileName == "testfile1.gs"

FileBase == 0

\* position::File::position: the line and column of a position
Position(pos) ==
    [filename |-> FileName,
     line |-> ((pos - FileBase) \div LineLen) + 1,
     column |-> ((pos - FileBase) % LineLen) + 1]

\* the Display of a Position: filename:line:column
PositionText(position) ==
    <<position.filename, ":", ToString(position.line), ":",
      ToString(position.column)>>

\* Scope::arena_new(outer, scopes): the arena with a new, empty scope
ScopeArenaNew(outer, scs) == Append(scs, [outer |-> outer, entities |-> <<>>])

\* Parser::open_scope
open_scope(p) ==
    [p EXCEPT !.objects.scopes = ScopeArenaNew(p.top_scope, @),
              !.top_scope = Len(p.objects.scopes) + 1]

\* Parser::close_scope
close_scope(p) == [p EXCEPT !.top_scope = p.objects.scopes[p.top_scope].outer]

\* Parser::error: the position is resolved and the message added to the list
error(p, pos, msg) ==
    [p EXCEPT !.errors = Append(@, [pos |-> Position(pos), msg |-> msg])]

\* Parser::error_expected
error_expected(p, pos, msg) ==
    LET mstr == <<"expected ", msg>>
        found == IF pos = p.pos
                 THEN IF p.token.kind = "SEMICOLON"
                      THEN IF ~p.token.real THEN <<", found newline">>
                           ELSE <<>>
                      ELSE <<", found ", TokenText(p.token)>>
                 ELSE <<>>
    IN  error(p, pos, mstr \o found)

\* Parser::next: the scanner delivers the token scanned and its position,
\* one past the last one until the end of the source
next(p, scanned) ==
    [p EXCEPT !.token = scanned,
              !.pos = IF p.token = EOF THEN p.pos ELSE p.pos + 1]

\* Parser::expect: (the parser, the position returned)
expect(p, tok, scanned) ==
    LET pos == p.pos
        p1 == IF p.token # tok
              THEN error_expected(p, pos, <<"'", TokenText(tok), "'">>)
              ELSE p
    IN  [parser |-> next(p1, scanned), pos |-> pos]

\* Parser::parse_ident: the parser afterwards; the identifier's key is the
\* last one of the arena
parse_ident(p, scanned) ==
    LET pos == p.pos
        isIdent == p.token.kind = "IDENT"
        name == IF isIdent THEN p.token.lit ELSE "_"
        p1 == IF isIdent THEN next(p, scanned)
              ELSE expect(p, IDENT(""), scanned).parser
    IN  [p1 EXCEPT !.objects.idents =
            Append(@, [pos |-> pos, name |-> name, entity |-> NoEntity])]


\* Entity::arena_new(kind, name, decl, data, entities)
EntityArenaNew(kind, name, decl, data, ents) ==
    Append(ents, [kind |-> kind, name |-> name, decl |-> decl, data |-> data])

\* Scope::insert of the parser's scopes: the entity bound to name before,
\* or None after binding name to entity
pscope_insert(scope, name, entity) ==
    IF name \in DOMAIN scope.entities
    THEN [scope |-> scope, prev |-> scope.entities[name]]
    ELSE [scope |-> [scope EXCEPT !.entities = (name :> entity) @@ @],
          prev |-> None]

\* Entity::pos: the position of the identifier of the entity's declaration
\* that bears the entity's name
EntityPos(objs, e) ==
    LET ent == objs.entities[e]
        names == IF ent.decl = NoDecl THEN <<>> ELSE objs.specs[ent.decl].names
        hits == {i \in 1..Len(names) : objs.idents[names[i]].name = ent.name}
    IN  IF hits = {} THEN 0
        ELSE objs.idents[names[CHOOSE i \in hits : \A k \in hits : i <= k]].pos

\* lines 112-115: the text of the redeclaration diagnostic
RedeclaredMsg(name, position) ==
    <<name, " redeclared in this block\n\tprevious declaration at ">>
      \o PositionText(position)

\* a loop body of declare that lets the identifier denote the entity bound
\* before, as short_var_decl does
declare_ident_aliasing(p, decl, data, kind, scope_ind, id) ==
    LET name == p.objects.idents[id].name
        entity == Len(p.objects.entities) + 1
        p1 == [p EXCEPT
                 !.objects.entities = EntityArenaNew(kind, name, decl, data, @),
                 !.objects.idents[id].entity = entity]
    IN  IF name # "_"
        THEN LET r == pscope_insert(p1.objects.scopes[scope_ind], name, entity)
                 p2 == [p1 EXCEPT !.objects.scopes[scope_ind] = r.scope]
             IN  IF r.prev # None
                 THEN error([p2 EXCEPT !.objects.idents[id].entity = r.prev],
                            p2.objects.idents[id].pos,
                            RedeclaredMsg(name,
                                Position(EntityPos(p2.objects, r.prev))))
                 ELSE p2
        ELSE p1

\* Parser::declare, the body of the loop for the identifier id
declare_ident(p, decl, data, kind, scope_ind, id) ==
    LET name == p.objects.idents[id].name
        entity == Len(p.objects.entities) + 1
        p1 == [p EXCEPT
                 !.objects.entities = EntityArenaNew(kind, name, decl, data, @),
                 !.objects.idents[id].entity = entity]
    IN  IF name # "_"
        THEN LET r == pscope_insert(p1.objects.scopes[scope_ind], name, entity)
                 p2 == [p1 EXCEPT !.objects.scopes[scope_ind] = r.scope]
             IN  IF r.prev # None
                 THEN error(p2, p2.objects.idents[id].pos,
                            RedeclaredMsg(name,
                                Position(EntityPos(p2.objects, r.prev))))
                 ELSE p2
        ELSE p1

\* Parser::declare, the loop from the j-th identifier on
RECURSIVE declare(_, _, _, _, _, _, _)
declare(p, decl, data, kind, scope_ind, idents, j) ==
    IF j > Len(idents) THEN p
    ELSE declare(declare_ident(p, decl, data, kind, scope_ind, idents[j]),
                 decl, data, kind, scope_ind, idents, j + 1)

----------------------------------------------------------------------------
(* The parser: identifiers are parsed, scopes opened and closed, and the  *)
(* identifiers of a declaration declared in a scope                       *)

ParserInit ==
    /\ scopes = TCObjectsNewScopes
    /\ pkgs = TCObjectsNewPkgs
    /\ lobjs = <<>>
    /\ decl_infos = <<>>
    /\ octx = ObjContextNew
    /\ types = <<>>
    /\ checker = NoChecker
    /\ errors = <<>>
    /\ result = TypeInfoNew
    /\ call = NoCall
    /\ panicked = FALSE
    /\ parser = ParserNew

\* the tokens the scanner can deliver next: EOF at the end of the source
Scanned == IF parser.pos >= SrcLen THEN {EOF} ELSE SourceTokens

ParserFrame == UNCHANGED <<arenaVars, checkerVars, panicked>>

Advance ==
    /\ parser.token # EOF
    /\ \E scanned \in Scanned :
         /\ parser' = next(parser, scanned)
         /\ call' = [op |-> "next"]
    /\ ParserFrame

ParseIdent ==
    /\ Len(parser.objects.idents) < MaxIdents
    /\ Len(parser.errors) < MaxParserErrors
    /\ \E scanned \in Scanned :
         /\ parser' = parse_ident(parser, scanned)
         /\ call' = [op |-> "parse_ident"]
    /\ ParserFrame

OpenScope ==
    /\ Len(parser.objects.scopes) < MaxParserScopes
    /\ parser' = open_scope(parser)
    /\ call' = [op |-> "open_scope"]
    /\ ParserFrame

CloseScope ==
    /\ parser.top_scope # None
    /\ parser' = close_scope(parser)
    /\ call' = [op |-> "close_scope"]
    /\ ParserFrame

\* declare is called for a declaration just parsed, whose names are idents
Declare ==
    /\ Len(parser.errors) < MaxParserErrors
    /\ \E idents \in SeqsUpTo(1..Len(parser.objects.idents), MaxDeclIdents),
          scope_ind \in 1..Len(parser.objects.scopes),
          kind \in {"Var"} :
         /\ Len(idents) > 0
         /\ Len(parser.objects.entities) + Len(idents) <= MaxEntities
         /\ LET decl == Len(parser.objects.specs) + 1
                p0 == [parser EXCEPT
                         !.objects.specs = Append(@, [names |-> idents])]
            IN  parser' = declare(p0, decl, "NoData", kind, scope_ind,
                                  idents, 1)
         /\ call' = [op |-> "declare", idents |-> idents, kind |-> kind,
                     scope_ind |-> scope_ind]
    /\ ParserFrame

ParserNext == Advance \/ ParseIdent \/ OpenScope \/ CloseScope \/ Declare

SpecParser == ParserInit /\ [][ParserNext]_vars


----------------------------------------------------------------------------
(* Claims about declare *)

\* C10: when declare() processes a non-blank identifier whose name is
\* already bound directly in the target scope (before the call or by an
\* earlier identifier of the same call), the scope's binding of the name
\* stays with the first-bound entity, exactly one "redeclared in this
\* block" diagnostic is produced at the new identifier's position, citing
\* the resolved position of the previous declaration, and the identifier
\* keeps its own newly created entity instead of the previous one.
C10_RedeclarationKeepsFirstBinding ==
    [][call'.op = "declare" =>
        LET ids == call'.idents
            S == call'.scope_ind
            old == parser.objects
            new == parser'.objects
            E0 == Len(old.entities)
            Name(j) == old.idents[ids[j]].name
            BoundBefore(n) == n \in DOMAIN old.scopes[S].entities
            FirstIn(n) ==
                CHOOSE j \in 1..Len(ids) :
                    Name(j) = n /\ \A k \in 1..(j - 1) : Name(k) # n
            FirstBound(n) ==
                IF BoundBefore(n) THEN old.scopes[S].entities[n]
                ELSE E0 + FirstIn(n)
            Redeclares(j) ==
                Name(j) # "_" /\ (BoundBefore(Name(j)) \/ FirstIn(Name(j)) < j)
            LastOf(id) ==
                CHOOSE j \in 1..Len(ids) :
                    ids[j] = id /\ \A k \in (j + 1)..Len(ids) : ids[k] # id
            Diagnostic(j) ==
                [pos |-> Position(old.idents[ids[j]].pos),
                 msg |-> <<Name(j),
                           " redeclared in this block\n\tprevious declaration at ">>
                         \o PositionText(
                              Position(EntityPos(new, FirstBound(Name(j)))))]
            redeclared == SelectSeq([j \in 1..Len(ids) |-> j],
                                    LAMBDA j : Redeclares(j))
        IN  /\ parser'.errors =
                 parser.errors \o
                   [k \in 1..Len(redeclared) |-> Diagnostic(redeclared[k])]
            /\ \A j \in 1..Len(ids) :
                 Redeclares(j) =>
                   /\ new.scopes[S].entities[Name(j)] = FirstBound(Name(j))
                   /\ new.idents[ids[j]].entity = E0 + LastOf(ids[j])
                   /\ new.idents[ids[j]].entity # FirstBound(Name(j))
                   /\ new.entities[new.idents[ids[j]].entity].name = Name(j)
                   /\ new.idents[ids[j]].pos = old.idents[ids[j]].pos]_vars

\* declare has processed an identifier x whose name an earlier declaration
\* had bound in the scope: the diagnostic is there, the scope still has the
\* older entity, declared elsewhere, and the identifier has its own
C10_Witness ==
    /\ call.op = "declare"
    /\ Len(call.idents) = 1
    /\ Len(parser.errors) > 0
    /\ LET ident == parser.objects.idents[call.idents[1]]
           scope == parser.objects.scopes[call.scope_ind]
           ents == parser.objects.entities
       IN  /\ ident.name = "x"
           /\ parser.errors[Len(parser.errors)].msg[1] = "x"
           /\ parser.errors[Len(parser.errors)].pos = Position(ident.pos)
           /\ ident.entity = Len(ents)
           /\ scope.entities["x"] < ident.entity
           /\ ents[scope.entities["x"]].decl # ents[ident.entity].decl
           /\ Position(EntityPos(parser.objects, scope.entities["x"]))
                # Position(ident.pos)


----------------------------------------------------------------------------
(* src/parser.rs: short variable declarations *)

\* ast::Expr on the left of := : Expr::Ident(id), or a selector expression
\* on the identifier id
ExprIdent(id) == [kind |-> "Ident", id |-> id]

ExprSelector(id) == [kind |-> "Selector", id |-> id]

\* Expr::pos: an identifier's position; a selector expression starts at its
\* operand
LhsPos(objs, expr) == objs.idents[expr.id].pos

\* the identifiers among the expressions of list
LhsIdents(list) ==
    LET ids == SelectSeq(list, LAMBDA e : e.kind = "Ident")
    IN  [k \in 1..Len(ids) |-> ids[k].id]

\* line 147 and line 153: the texts of the two diagnostics
ExpectedIdentMsg == "identifier on left side of :="

NoNewVarsMsg == <<"no new variables on left side of :=">>

\* a loop body of short_var_decl that counts a rebound identifier as new
short_var_decl_expr_counting(st, assign_stmt, expr) ==
    LET p == st.p
    IN  IF expr.kind = "Ident"
        THEN LET id == expr.id
                 name == p.objects.idents[id].name
                 entity == Len(p.objects.entities) + 1
                 p1 == [p EXCEPT
                          !.objects.entities =
                              EntityArenaNew("Var", name, assign_stmt,
                                             "NoData", @),
                          !.objects.idents[id].entity = entity]
             IN  IF name # "_"
                 THEN IF p1.top_scope = None
                      THEN [p |-> p1, n |-> st.n, panic |-> TRUE]
                      ELSE LET r == pscope_insert(
                                        p1.objects.scopes[p1.top_scope],
                                        name, entity)
                               p2 == [p1 EXCEPT
                                        !.objects.scopes[p1.top_scope] =
                                            r.scope]
                           IN  IF r.prev # None
                               THEN [p |-> [p2 EXCEPT
                                        !.objects.idents[id].entity = r.prev],
                                     n |-> st.n + 1, panic |-> FALSE]
                               ELSE [p |-> p2, n |-> st.n + 1,
                                     panic |-> FALSE]
                 ELSE [p |-> p1, n |-> st.n, panic |-> FALSE]
        ELSE [p |-> error_expected(p, LhsPos(p.objects, expr),
                                   ExpectedIdentMsg),
              n |-> st.n, panic |-> FALSE]

\* a loop body of short_var_decl that inserts the blank name too
short_var_decl_expr_blank(st, assign_stmt, expr) ==
    LET p == st.p
    IN  IF expr.kind = "Ident"
        THEN LET id == expr.id
                 name == p.objects.idents[id].name
                 entity == Len(p.objects.entities) + 1
                 p1 == [p EXCEPT
                          !.objects.entities =
                              EntityArenaNew("Var", name, assign_stmt,
                                             "NoData", @),
                          !.objects.idents[id].entity = entity]
             IN  IF p1.top_scope = None
                 THEN [p |-> p1, n |-> st.n, panic |-> TRUE]
                 ELSE LET r == pscope_insert(
                                   p1.objects.scopes[p1.top_scope],
                                   name, entity)
                          p2 == [p1 EXCEPT
                                   !.objects.scopes[p1.top_scope] = r.scope]
                      IN  IF r.prev # None
                          THEN [p |-> [p2 EXCEPT
                                   !.objects.idents[id].entity = r.prev],
                                n |-> st.n, panic |-> FALSE]
                          ELSE [p |-> p2, n |-> st.n + 1, panic |-> FALSE]
        ELSE [p |-> error_expected(p, LhsPos(p.objects, expr),
                                   ExpectedIdentMsg),
              n |-> st.n, panic |-> FALSE]

\* Parser::short_var_decl, the body of the loop for the expression expr:
\* the parser, the number n of new variables, and whether unwrap() of an
\* absent top_scope panicked
short_var_decl_expr(st, assign_stmt, expr) ==
    LET p == st.p
    IN  IF expr.kind = "Ident"
        THEN LET id == expr.id
                 name == p.objects.idents[id].name
                 entity == Len(p.objects.entities) + 1
                 p1 == [p EXCEPT
                          !.objects.entities =
                              EntityArenaNew("Var", name, assign_stmt,
                                             "NoData", @),
                          !.objects.idents[id].entity = entity]
             IN  IF name # "_"
                 THEN IF p1.top_scope = None
                      THEN [p |-> p1, n |-> st.n, panic |-> TRUE]
                      ELSE LET r == pscope_insert(
                                        p1.objects.scopes[p1.top_scope],
                                        name, entity)
                               p2 == [p1 EXCEPT
                                        !.objects.scopes[p1.top_scope] =
                                            r.scope]
                           IN  IF r.prev # None
                               THEN [p |-> [p2 EXCEPT
                                        !.objects.idents[id].entity = r.prev],
                                     n |-> st.n, panic |-> FALSE]
                               ELSE [p |-> p2, n |-> st.n + 1,
                                     panic |-> FALSE]
                 ELSE [p |-> p1, n |-> st.n, panic |-> FALSE]
        ELSE [p |-> error_expected(p, LhsPos(p.objects, expr),
                                   ExpectedIdentMsg),
              n |-> st.n, panic |-> FALSE]

\* Parser::short_var_decl, the loop from the j-th expression on
RECURSIVE short_var_decl_loop(_, _, _, _)
short_var_decl_loop(st, assign_stmt, list, j) ==
    IF j > Len(list) \/ st.panic THEN st
    ELSE short_var_decl_loop(short_var_decl_expr(st, assign_stmt, list[j]),
                             assign_stmt, list, j + 1)

\* Parser::short_var_decl: the parser afterwards and whether it panicked
short_var_decl(p, assign_stmt, list) ==
    LET st == short_var_decl_loop([p |-> p, n |-> 0, panic |-> FALSE],
                                  assign_stmt, list, 1)
    IN  IF st.panic THEN [p |-> st.p, panic |-> TRUE]
        ELSE IF st.n = 0
        THEN [p |-> error(st.p, LhsPos(st.p.objects, list[1]), NoNewVarsMsg),
              panic |-> FALSE]
        ELSE [p |-> st.p, panic |-> FALSE]

----------------------------------------------------------------------------
(* Declarations of a block: the identifiers of a statement are parsed and *)
(* then declared, by declare or by short_var_decl, statement by statement *)

\* the identifiers not yet taken by a statement: those after the last
\* identifier that has an entity
FirstFreeIdent ==
    LET used == {i \in 1..Len(parser.objects.idents) :
                    parser.objects.idents[i].entity # NoEntity}
    IN  IF used = {} THEN 1
        ELSE (CHOOSE i \in used : \A k \in used : k <= i) + 1

\* the runs of consecutive identifiers a statement can declare
IdentRuns ==
    {[k \in 1..n |-> FirstFreeIdent + k - 1] : n \in 1..MaxDeclIdents}
    \cap SeqsUpTo(1..Len(parser.objects.idents), MaxDeclIdents)

\* the left-hand sides over a run of identifiers: the identifiers
\* themselves, or with a selector expression on the first one
LhsLists(run) ==
    {[k \in 1..Len(run) |-> ExprIdent(run[k])],
     [k \in 1..Len(run) |-> IF k = 1 THEN ExprSelector(run[k])
                            ELSE ExprIdent(run[k])]}

\* the identifiers of the block parsed, in the order of the text: the
\* scanner delivers them one after the other, again and again
BlockSource == <<"_", "x", "x", "y">>

BlockToken(i) == IDENT(BlockSource[((i - 1) % Len(BlockSource)) + 1])

ParseLhsIdent ==
    /\ ~panicked
    /\ Len(parser.objects.idents) < MaxLhsIdents
    /\ parser' = parse_ident(parser, BlockToken(parser.pos + 1))
    /\ call' = [op |-> "parse_ident"]
    /\ ParserFrame

OpenBlock ==
    /\ ~panicked
    /\ Len(parser.objects.scopes) < MaxParserScopes
    /\ parser' = open_scope(parser)
    /\ call' = [op |-> "open_scope"]
    /\ ParserFrame

CloseBlock ==
    /\ ~panicked
    /\ parser.top_scope # None
    /\ parser' = close_scope(parser)
    /\ call' = [op |-> "close_scope"]
    /\ ParserFrame

\* declare is called for a declaration just parsed, whose names are idents,
\* with the scope of the block
DeclareStmt ==
    /\ ~panicked
    /\ Len(parser.objects.specs) < MaxStmts
    /\ parser.top_scope # None
    /\ \E idents \in IdentRuns, scope_ind \in {parser.top_scope} :
         /\ LET decl == Len(parser.objects.specs) + 1
                p0 == [parser EXCEPT
                         !.objects.specs = Append(@, [names |-> idents])]
            IN  parser' = declare(p0, decl, "NoData", "Var", scope_ind,
                                  idents, 1)
         /\ call' = [op |-> "declare", idents |-> idents, kind |-> "Var",
                     scope_ind |-> scope_ind]
    /\ ParserFrame

\* short_var_decl is called for an assignment statement just parsed, whose
\* left-hand side is list
ShortVarDecl ==
    /\ ~panicked
    /\ Len(parser.objects.specs) < MaxStmts
    /\ \E run \in IdentRuns :
         \E list \in LhsLists(run) :
           LET assign_stmt == Len(parser.objects.specs) + 1
               p0 == [parser EXCEPT
                        !.objects.specs =
                            Append(@, [names |-> LhsIdents(list)])]
               r == short_var_decl(p0, assign_stmt, list)
           IN  /\ parser' = r.p
               /\ panicked' = r.panic
               /\ call' = [op |-> "short_var_decl", list |-> list]
    /\ UNCHANGED <<arenaVars, checkerVars>>

DeclNext ==
    \/ ParseLhsIdent \/ OpenBlock \/ CloseBlock \/ DeclareStmt
    \/ ShortVarDecl

SpecDecl == ParserInit /\ [][DeclNext]_vars

----------------------------------------------------------------------------
(* Claims about short_var_decl and the blank name *)

\* the diagnostics a step has added to the parser's error list
AddedErrors ==
    SubSeq(parser'.errors, Len(parser.errors) + 1, Len(parser'.errors))

\* C11: in short_var_decl, each non-blank left-hand identifier whose name is
\* already bound directly in the top scope (before the call or by an earlier
\* identifier of the list) is rebound to the existing entity and not counted
\* as new, each one whose name is not yet bound is inserted with its own new
\* entity and counted, and the "no new variables" diagnostic is reported,
\* once and at the position of the first expression of the list, exactly
\* when the count of new names is zero.
C11_ShortVarDeclRebindsOrInserts ==
    [][(call'.op = "short_var_decl" /\ ~panicked') =>
        LET list == call'.list
            old == parser.objects
            new == parser'.objects
            T == parser.top_scope
            E0 == Len(old.entities)
            IsId(j) == list[j].kind = "Ident"
            Ids == {j \in 1..Len(list) : IsId(j)}
            Name(j) == old.idents[list[j].id].name
            Fresh(j) == E0 + Cardinality({k \in Ids : k <= j})
            BoundBefore(n) == T # None /\ n \in DOMAIN old.scopes[T].entities
            FirstIn(n) ==
                CHOOSE j \in Ids :
                    Name(j) = n /\ \A k \in Ids : (k < j) => Name(k) # n
            Existing(j) ==
                Name(j) # "_" /\ (BoundBefore(Name(j)) \/ FirstIn(Name(j)) < j)
            ExistingEntity(n) ==
                IF BoundBefore(n) THEN old.scopes[T].entities[n]
                ELSE Fresh(FirstIn(n))
            IsNew(j) == Name(j) # "_" /\ ~Existing(j)
            count == Cardinality({j \in Ids : IsNew(j)})
            diags == {k \in 1..Len(AddedErrors) :
                        AddedErrors[k].msg[1] =
                            "no new variables on left side of :="}
        IN  /\ \A j \in Ids :
                 /\ Existing(j) =>
                      /\ new.idents[list[j].id].entity =
                             ExistingEntity(Name(j))
                      /\ new.idents[list[j].id].entity # Fresh(j)
                      /\ new.scopes[T].entities[Name(j)] =
                             ExistingEntity(Name(j))
                 /\ IsNew(j) =>
                      /\ new.idents[list[j].id].entity = Fresh(j)
                      /\ new.scopes[T].entities[Name(j)] = Fresh(j)
                      /\ new.entities[Fresh(j)].name = Name(j)
            /\ (count = 0) <=> (diags # {})
            /\ Cardinality(diags) <= 1
            /\ \A k \in diags :
                 AddedErrors[k].pos = Position(LhsPos(old, list[1]))]_vars

\* after a statement that reported "no new variables", and a declaration of
\* x, the statement `x, y := ...` has been declared: x denotes the entity of
\* the earlier statement, y a new one of this statement, and no diagnostic
\* was added for it
C11_Witness ==
    /\ call.op = "short_var_decl"
    /\ ~panicked
    /\ Len(call.list) = 2
    /\ call.list[1].kind = "Ident" /\ call.list[2].kind = "Ident"
    /\ LET objs == parser.objects
           stmt == Len(objs.specs)
           x == objs.idents[call.list[1].id]
           y == objs.idents[call.list[2].id]
           last == parser.errors[Len(parser.errors)]
       IN  /\ x.name = "x" /\ y.name = "y"
           /\ objs.entities[x.entity].decl < stmt
           /\ objs.entities[y.entity].decl = stmt
           /\ objs.scopes[parser.top_scope].entities["x"] = x.entity
           /\ objs.scopes[parser.top_scope].entities["y"] = y.entity
           /\ Len(parser.errors) > 0
           /\ last.msg[1] = "no new variables on left side of :="
           /\ last.pos # Position(x.pos)

\* C12: after any sequence of declare and short_var_decl calls no scope
\* contains a binding for the blank name `_`: an identifier named `_` is
\* given a new entity of its own, produces no redeclaration diagnostic
\* however often it is declared, and does not count as a new variable (a
\* short variable declaration of blank identifiers only reports "no new
\* variables").
C12_BlankNeverInserted ==
    [][/\ \A s \in 1..Len(parser'.objects.scopes) :
            "_" \notin DOMAIN parser'.objects.scopes[s].entities
       /\ (call'.op \in {"declare", "short_var_decl"} /\ ~panicked') =>
            LET ids == IF call'.op = "declare" THEN call'.idents
                       ELSE LhsIdents(call'.list)
                old == parser.objects
                new == parser'.objects
                E0 == Len(old.entities)
                blanks == {j \in 1..Len(ids) : old.idents[ids[j]].name = "_"}
            IN  /\ \A j \in blanks :
                     /\ new.idents[ids[j]].entity = E0 + j
                     /\ new.entities[E0 + j].name = "_"
                /\ \A k \in 1..Len(AddedErrors) : AddedErrors[k].msg[1] # "_"
                /\ (call'.op = "short_var_decl"
                      /\ blanks = 1..Len(ids)) =>
                     /\ Len(AddedErrors) > 0
                     /\ AddedErrors[Len(AddedErrors)].msg[1] =
                            "no new variables on left side of :="]_vars

\* the blank identifier has been declared twice, by an earlier statement and by
\* short_var_decl with nothing else on the left: both times it got an entity
\* of its own, the scope is still empty, and the statement reported "no new
\* variables" at its position
C12_Witness ==
    /\ call.op = "short_var_decl"
    /\ ~panicked
    /\ parser.top_scope # None
    /\ Len(call.list) = 1
    /\ call.list[1].kind = "Ident"
    /\ LET objs == parser.objects
           b == objs.idents[call.list[1].id]
       IN  /\ b.name = "_"
           /\ b.entity = Len(objs.entities)
           /\ \E e \in 1..(Len(objs.entities) - 1) :
                /\ objs.entities[e].name = "_"
                /\ objs.entities[e].decl < Len(objs.specs)
           /\ DOMAIN objs.scopes[parser.top_scope].entities = {}
           /\ \E k \in 1..Len(parser.errors) :
                /\ parser.errors[k].msg[1] =
                       "no new variables on left side of :="
                /\ parser.errors[k].pos = Position(b.pos)

----------------------------------------------------------------------------
(* types/src/check/check.rs: ObjContext::add_decl_dep *)

\* DeclInfo of a package-level declaration of the object obj: its set of
\* dependencies is empty at first
DeclInfoNew(obj) == [obj |-> obj, deps |-> {}]

\* DeclInfo::add_dep
add_dep(info, to) == [info EXCEPT !.deps = @ \cup {to}]

\* an add_decl_dep that does not consult obj_map
add_decl_dep_untracked(ctx, to, obj_map, infos) ==
    IF ctx.decl = None THEN infos
    ELSE [infos EXCEPT ![ctx.decl] = add_dep(@, to)]

\* ObjContext::add_decl_dep: the arena of DeclInfo afterwards
add_decl_dep(ctx, to, obj_map, infos) ==
    IF ctx.decl = None THEN infos
    ELSE IF to \notin DOMAIN obj_map THEN infos
    ELSE [infos EXCEPT ![ctx.decl] = add_dep(@, to)]

----------------------------------------------------------------------------
(* Dependency tracking: package-level declarations are collected, other   *)
(* objects are created, the checker enters and leaves the declarations,   *)
(* and every reference to an object calls add_decl_dep                    *)

DepsInit ==
    LET r == new_package(TCObjectsNewScopes, TCObjectsNewPkgs, "a", "a")
    IN  /\ scopes = r.scopes
        /\ pkgs = r.pkgs
        /\ lobjs = <<>>
        /\ types = <<>>
        /\ decl_infos = <<>>
        /\ checker = CheckerNew(Len(r.pkgs))
        /\ errors = <<>>
        /\ result = TypeInfoNew
        /\ octx = ObjContextNew
        /\ call = NoCall
        /\ panicked = FALSE
        /\ parser = ParserNew

\* a package-level declaration is collected: its object and its DeclInfo
\* are created and the object is tracked in obj_map
CollectDecl ==
    /\ Len(lobjs) < MaxObjs
    /\ Len(decl_infos) < MaxDecls
    /\ LET okey == Len(lobjs) + 1
           dkey == Len(decl_infos) + 1
       IN  /\ lobjs' = Append(lobjs, [name |-> TopLevelNames[dkey],
                                     pos |-> PackagePos(1) + 20 + dkey])
           /\ decl_infos' = Append(decl_infos, DeclInfoNew(okey))
           /\ checker' = [checker EXCEPT !.obj_map = (okey :> dkey) @@ @]
           /\ call' = [op |-> "collect_decl", obj |-> okey]
    /\ UNCHANGED <<scopes, pkgs, types, errors, result, octx, panicked,
                   parser>>

\* an object that is no package-level declaration (a local variable, a
\* parameter, a builtin) is created
NewLocalObj ==
    /\ Len(lobjs) < MaxObjs
    /\ lobjs' = Append(lobjs, new_var(0, Some(checker.pkg), "v", None))
    /\ call' = [op |-> "new_var", obj |-> Len(lobjs) + 1]
    /\ UNCHANGED <<scopes, pkgs, types, decl_infos, checkerVars, panicked,
                   parser>>

\* the checker starts to check the declaration d, or (None) checks outside
\* of every package-level declaration
SetObjContext ==
    /\ \E d \in {None} \cup (1..Len(decl_infos)) :
         /\ d # octx.decl
         /\ octx' = [octx EXCEPT !.decl = d]
         /\ call' = [op |-> "obj_context", decl |-> d]
    /\ UNCHANGED <<arenaVars, checker, errors, result, panicked, parser>>

AddDeclDep ==
    /\ \E to \in 1..Len(lobjs) :
         /\ decl_infos' = add_decl_dep(octx, to, checker.obj_map, decl_infos)
         /\ call' = [op |-> "add_decl_dep", to |-> to]
    /\ UNCHANGED <<scopes, pkgs, lobjs, types, checkerVars, panicked,
                   parser>>

DepsNext == CollectDecl \/ NewLocalObj \/ SetObjContext \/ AddDeclDep

SpecDeps == DepsInit /\ [][DepsNext]_vars

----------------------------------------------------------------------------
(* Claims about add_decl_dep *)

\* C13 (as claimed): after any sequence of add_decl_dep calls, the dependency
\* set of every declaration D contains only objects other than D's own that
\* are tracked package-level declarations (keys of obj_map).
C13_DepsAreOtherTrackedDecls ==
    \A d \in 1..Len(decl_infos) :
        \A o \in decl_infos[d].deps :
            o \in DOMAIN checker.obj_map /\ checker.obj_map[o] # d

\* C13 (amended): the dependency set of every declaration contains only
\* tracked package-level declarations (keys of obj_map), the declaration's
\* own object included when it refers to itself; a call adds its target to
\* the set of the current declaration and changes nothing else, and a call
\* made with no current declaration, or with a target that is not in
\* obj_map, changes no dependency set.
C13_DepsAreTrackedDecls ==
    [][/\ \A d \in 1..Len(decl_infos') :
            decl_infos'[d].deps \subseteq DOMAIN checker'.obj_map
       /\ call'.op = "add_decl_dep" =>
            IF octx.decl = None \/ call'.to \notin DOMAIN checker.obj_map
            THEN decl_infos' = decl_infos
            ELSE decl_infos' =
                   [decl_infos EXCEPT ![octx.decl].deps = @ \cup {call'.to}]
      ]_vars

\* while a declaration is checked, add_decl_dep has been called with its own
\* object and with an object that is not tracked: the first is among its
\* dependencies, the second is not
C13_Witness ==
    /\ call.op = "add_decl_dep"
    /\ octx.decl # None
    /\ call.to \in DOMAIN checker.obj_map
    /\ checker.obj_map[call.to] = octx.decl
    /\ call.to \in decl_infos[octx.decl].deps
    /\ \E o \in 1..Len(lobjs) :
         o \notin DOMAIN checker.obj_map /\ o \notin decl_infos[octx.decl].deps
    /\ \E o \in DOMAIN checker.obj_map :
         o # call.to /\ o \in decl_infos[octx.decl].deps

----------------------------------------------------------------------------
(* Claims about the initialization order *)

\* the top-level declarations of the parsed files are `var x = y`,
\* `var y = 1` and `var z`: the names the initializer of a variable refers
\* to, if it has one
InitializerOf(name) ==
    CASE name = "x" -> Some({"y"})
      [] name = "y" -> Some({})
      [] OTHER -> NoValue

\* the variables of init_order, in its order
InitOrderVars(init_order) ==
    [k \in 1..Len(init_order) |-> init_order[k].lhs[1]]

\* does the initializer of the variable named a refer to the variable named
\* b, directly or through at most n other initializers?
RECURSIVE DependsOn(_, _, _)
DependsOn(a, b, n) ==
    /\ IsSome(InitializerOf(a))
    /\ \/ b \in InitializerOf(a)[1]
       \/ /\ n > 0
          /\ \E c \in InitializerOf(a)[1] : DependsOn(c, b, n - 1)

\* C14: after check() the Result Store's init_order contains exactly the
\* package-level variables that have an initializer expression, each exactly
\* once, and whenever variable A's initializer depends directly or
\* transitively on variable B, B appears before A (so `var x = y; var y = 1`
\* yields [y, x]); variables without an initializer never appear.
C14_InitOrderOfInitializedVars ==
    (/\ call.op = "check"
     /\ Len(call.files) > 0
     /\ PkgNameOf(call.files, 1) # "_"
     /\ ~HasMismatch(call.files))
    => LET order == InitOrderVars(result.init_order)
           tracked == DOMAIN checker.obj_map
           inits == {o \in tracked : IsSome(InitializerOf(lobjs[o].name))}
           At(o) == CHOOSE k \in 1..Len(order) : order[k] = o
       IN  /\ Range(order) = inits
           /\ \A j, k \in 1..Len(order) : order[j] = order[k] => j = k
           /\ \A a, b \in inits :
                DependsOn(lobjs[a].name, lobjs[b].name, Len(TopLevelNames))
                  => At(b) < At(a)

----------------------------------------------------------------------------
(* types/src/check/check.rs: recording definitions, uses, implicits,      *)
(* selections and scopes                                                  *)

\* the identifiers of the checked file (ast_objs.idents) in the text
\*     var x T;  x.f;  type T struct { f int }
\* with their positions: x is declared by the identifier 1 and used by 2,
\* f is declared by 3 and is the selector 4 of x.f
AstIdents ==
    <<[name |-> "x", pos |-> 5], [name |-> "x", pos |-> 11],
      [name |-> "f", pos |-> 30], [name |-> "f", pos |-> 13]>>

\* the identifiers that declare an object, and those that refer to one
DeclaringIdents == {1, 3}

ReferringIdents == {2, 4}

\* the expressions recorded: the selector expression x.f (node 1), whose
\* selector is the identifier 4, and the identifier x alone (node 2)
SelectorExprNode == [id |-> 1, kind |-> "Selector", sel |-> 4]

IdentExprNode == [id |-> 2, kind |-> "Ident", sel |-> None]

\* the nodes implicits and scopes are recorded for
AstNodes == 1..MaxNodes

\* Selection: the object selected; Selection::obj returns it
SelectionNew(obj) == [obj |-> obj]

\* TypeInfo::record_def
record_def(info, id, obj) == [info EXCEPT !.defs = (id :> obj) @@ @]

\* a record_use that inserts into the definitions
record_use_def(info, id, obj) == [info EXCEPT !.defs = (id :> obj) @@ @]

\* TypeInfo::record_use
record_use(info, id, obj) == [info EXCEPT !.uses = (id :> obj) @@ @]

\* TypeInfo::record_implicit
record_implicit(info, node, obj) ==
    [info EXCEPT !.implicits = (node :> obj) @@ @]

\* a record_selection that records the selector as a definition
record_selection_def(info, expr, sel) ==
    IF expr.kind # "Selector" THEN [panic |-> TRUE, info |-> info]
    ELSE LET info1 == record_def(info, expr.sel, sel.obj)
         IN  [panic |-> FALSE,
              info |-> [info1 EXCEPT !.selections = (expr.id :> sel) @@ @]]

\* TypeInfo::record_selection: unreachable!() panics when expr is no
\* selector expression
record_selection(info, expr, sel) ==
    IF expr.kind # "Selector" THEN [panic |-> TRUE, info |-> info]
    ELSE LET info1 == record_use(info, expr.sel, sel.obj)
         IN  [panic |-> FALSE,
              info |-> [info1 EXCEPT !.selections = (expr.id :> sel) @@ @]]

\* TypeInfo::record_scope
record_scope(info, node, scope) ==
    [info EXCEPT !.scopes = (node :> scope) @@ @]

----------------------------------------------------------------------------
(* Recording: the checker declares the objects of the declaring           *)
(* identifiers, resolves the referring ones by name and records what it   *)
(* finds                                                                  *)

RecordInit ==
    LET r == new_package(TCObjectsNewScopes, TCObjectsNewPkgs, "a", "a")
    IN  /\ scopes = r.scopes
        /\ pkgs = r.pkgs
        /\ lobjs = <<>>
        /\ types = <<>>
        /\ decl_infos = <<>>
        /\ checker = CheckerNew(Len(r.pkgs))
        /\ errors = <<>>
        /\ result = TypeInfoNew
        /\ octx = ObjContextNew
        /\ call = NoCall
        /\ panicked = FALSE
        /\ parser = ParserNew

RecordFrame ==
    UNCHANGED <<scopes, pkgs, types, decl_infos, checker, errors, octx,
                parser>>

\* the objects an identifier can refer to: those of its name
ObjectsNamed(name) == {o \in 1..Len(lobjs) : lobjs[o].name = name}

\* a declaring identifier is declared, once: its object is created at the
\* identifier's position and recorded as its definition
RecordDef ==
    /\ ~panicked
    /\ \E id \in DeclaringIdents \ DOMAIN result.defs :
         LET obj == Len(lobjs) + 1
         IN  /\ lobjs' = Append(lobjs, new_var(AstIdents[id].pos,
                                               Some(checker.pkg),
                                               AstIdents[id].name, None))
             /\ result' = record_def(result, id, obj)
             /\ call' = [op |-> "record_def", key |-> id, val |-> obj]
    /\ panicked' = panicked
    /\ RecordFrame

\* a referring identifier is resolved to an object of its name
RecordUse ==
    /\ ~panicked
    /\ \E id \in ReferringIdents :
         \E obj \in ObjectsNamed(AstIdents[id].name) :
           /\ result' = record_use(result, id, obj)
           /\ call' = [op |-> "record_use", key |-> id, val |-> obj]
    /\ UNCHANGED <<lobjs, panicked>>
    /\ RecordFrame

RecordImplicit ==
    /\ ~panicked
    /\ \E node \in AstNodes, obj \in 1..Len(lobjs) :
         /\ result' = record_implicit(result, node, obj)
         /\ call' = [op |-> "record_implicit", key |-> node, val |-> obj]
    /\ UNCHANGED <<lobjs, panicked>>
    /\ RecordFrame

\* a selector expression is resolved to the object of its selector's name
RecordSelection ==
    /\ ~panicked
    /\ \E expr \in {SelectorExprNode, IdentExprNode} :
         \E obj \in ObjectsNamed(AstIdents[SelectorExprNode.sel].name) :
           LET r == record_selection(result, expr, SelectionNew(obj))
           IN  /\ result' = r.info
               /\ panicked' = r.panic
               /\ call' = [op |-> "record_selection", key |-> expr.id,
                           expr |-> expr, val |-> SelectionNew(obj)]
    /\ UNCHANGED lobjs
    /\ RecordFrame

RecordScope ==
    /\ ~panicked
    /\ \E node \in AstNodes, scope \in 1..Len(scopes) :
         /\ result' = record_scope(result, node, scope)
         /\ call' = [op |-> "record_scope", key |-> node, val |-> scope]
    /\ UNCHANGED <<lobjs, panicked>>
    /\ RecordFrame

RecordNext ==
    \/ RecordDef \/ RecordUse \/ RecordImplicit \/ RecordSelection
    \/ RecordScope

SpecRecord == RecordInit /\ [][RecordNext]_vars

----------------------------------------------------------------------------
(* Claims about the recorded definitions and uses *)

C16_RecordingFrame ==
    [][LET Put(m, k, v) == (k :> v) @@ m
           Only(fields) ==
               \A f \in DOMAIN result : f \notin fields => result'[f] = result[f]
       IN  /\ call'.op = "record_def" =>
                /\ result'.defs = Put(result.defs, call'.key, call'.val)
                /\ Only({"defs"})
           /\ call'.op = "record_use" =>
                /\ result'.uses = Put(result.uses, call'.key, call'.val)
                /\ Only({"uses"})
           /\ call'.op = "record_implicit" =>
                /\ result'.implicits =
                       Put(result.implicits, call'.key, call'.val)
                /\ Only({"implicits"})
           /\ call'.op = "record_scope" =>
                /\ result'.scopes = Put(result.scopes, call'.key, call'.val)
                /\ Only({"scopes"})
           /\ (call'.op = "record_selection" /\ ~panicked') =>
                /\ result'.selections =
                       Put(result.selections, call'.expr.id, call'.val)
                /\ result'.uses =
                       Put(result.uses, call'.expr.sel, call'.val.obj)
                /\ Only({"selections", "uses"})]_vars

\* record_selection has recorded x.f in a store that already held a
\* definition, an implicit object and a scope, and a use of x
C16_Witness ==
    /\ call.op = "record_selection"
    /\ ~panicked
    /\ call.expr.id \in DOMAIN result.selections
    /\ result.selections[call.expr.id] = call.val
    /\ result.uses[call.expr.sel] = call.val.obj
    /\ 2 \in DOMAIN result.uses
    /\ DOMAIN result.defs # {}
    /\ DOMAIN result.implicits # {}
    /\ DOMAIN result.scopes # {}
    /\ result.init_order = <<>>

----------------------------------------------------------------------------
(* src/parser.rs: resolution of identifiers *)

\* Parser::try_resolve: the parser afterwards and whether the assertion on
\* the identifier's entity panicked
try_resolve(p, x, collect_unresolved) ==
    IF x.kind = "Ident"
    THEN IF p.objects.idents[x.id].entity # NoEntity
         THEN [p |-> p, panic |-> TRUE]
         ELSE IF collect_unresolved
         THEN [p |-> [p EXCEPT !.objects.idents[x.id].entity = Sentinel,
                               !.unresolved = Append(@, x.id)],
               panic |-> FALSE]
         ELSE [p |-> p, panic |-> FALSE]
    ELSE [p |-> p, panic |-> FALSE]

\* Parser::resolve
resolve(p, x) == try_resolve(p, x, TRUE)

----------------------------------------------------------------------------
(* Resolution: the identifiers of a block are parsed and, one after the   *)
(* other, declared in the block's scope or resolved                       *)

\* the expressions handed to resolve: the next identifier of the text, as
\* it is or under a selector expression, or the identifier before it
ResolvableExprs ==
    {e \in {ExprIdent(id) : id \in {FirstFreeIdent - 1, FirstFreeIdent}}
            \cup {ExprSelector(FirstFreeIdent)} :
        e.id \in 1..Len(parser.objects.idents)}

Resolve ==
    /\ ~panicked
    /\ \E x \in ResolvableExprs :
         LET r == resolve(parser, x)
         IN  /\ parser' = r.p
             /\ panicked' = r.panic
             /\ call' = [op |-> "resolve", x |-> x,
                         collect_unresolved |-> TRUE]
    /\ UNCHANGED <<arenaVars, checkerVars>>

TryResolve ==
    /\ ~panicked
    /\ \E x \in ResolvableExprs, collect_unresolved \in {FALSE} :
         LET r == try_resolve(parser, x, collect_unresolved)
         IN  /\ parser' = r.p
             /\ panicked' = r.panic
             /\ call' = [op |-> "try_resolve", x |-> x,
                         collect_unresolved |-> collect_unresolved]
    /\ UNCHANGED <<arenaVars, checkerVars>>

ResolveNext ==
    \/ ParseLhsIdent \/ OpenBlock \/ CloseBlock \/ DeclareStmt \/ Resolve
    \/ TryResolve

SpecResolve == ParserInit /\ [][ResolveNext]_vars

----------------------------------------------------------------------------
(* Claims about resolve *)

\* the entity a name denotes: the binding of the nearest scope that has
\* one, walking from the scope s outward
RECURSIVE ScopeChainLookup(_, _, _)
ScopeChainLookup(scs, s, name) ==
    IF s = None THEN None
    ELSE IF name \in DOMAIN scs[s].entities THEN scs[s].entities[name]
    ELSE ScopeChainLookup(scs, scs[s].outer, name)

\* C17: resolve(x) on an identifier x first looks up the object x denotes by
\* walking the scope chain from the current scope outward; if an object is
\* found, x is bound to it and is not added to the unresolved list, and only
\* if no object is found is x marked as unresolved (sentinel) and appended
\* to the unresolved list; with collect_unresolved false nothing is
\* collected.
C17_ResolveLooksUpScopeChain ==
    [][(call'.op \in {"resolve", "try_resolve"} /\ ~panicked'
          /\ call'.x.kind = "Ident") =>
        LET id == call'.x.id
            found == ScopeChainLookup(parser.objects.scopes, parser.top_scope,
                                      parser.objects.idents[id].name)
        IN  IF ~call'.collect_unresolved
            THEN parser'.unresolved = parser.unresolved
            ELSE IF found # None
            THEN /\ parser'.objects.idents[id].entity = found
                 /\ parser'.unresolved = parser.unresolved
            ELSE /\ parser'.objects.idents[id].entity = Sentinel
                 /\ parser'.unresolved = Append(parser.unresolved, id)]_vars

----------------------------------------------------------------------------
(* src/parser.rs: synchronization after an error *)

\* line 332 and line 361: the number of sync calls that may return at one
\* position without progress
SyncLimit == 10

\* Token::VAR and Token::IF
KwVAR == [kind |-> "VAR", lit |-> ""]

KwIF == [kind |-> "IF", lit |-> ""]

\* lines 321-324 and line 359: the tokens sync_stmt and sync_decl stop at
StmtSyncTokens ==
    {"BREAK", "CONST", "CONTINUE", "DEFER", "FALLTHROUGH", "FOR", "GO",
     "GOTO", "IF", "RETURN", "SELECT", "SWITCH", "TYPE", "VAR"}

DeclSyncTokens == {"CONST", "TYPE", "VAR"}

\* the tokens the scanner can deliver to a synchronizing parser: EOF at the
\* end of the source
SyncScanned(p) ==
    IF p.pos >= SyncSrcLen THEN {EOF} ELSE {KwVAR, KwIF, IDENT("x")}

\* the loop of a sync function that returns whenever the parser has not
\* advanced, without counting
RECURSIVE sync_loop_uncounted(_, _)
sync_loop_uncounted(p, stop_at) ==
    LET consume ==
            UNION {sync_loop_uncounted(next(p, t), stop_at) :
                     t \in SyncScanned(p)}
    IN  IF p.token.kind \in stop_at
        THEN IF p.pos = p.sync_pos
             THEN {p}
             ELSE IF p.pos > p.sync_pos
             THEN {[p EXCEPT !.sync_pos = p.pos, !.sync_count = 0]}
             ELSE consume
        ELSE IF p.token = EOF THEN {p}
        ELSE consume

\* the loop of sync_stmt and of sync_decl, which differ in the tokens they
\* stop at: the parsers the call can return, one for each text the scanner
\* may deliver
RECURSIVE sync_loop(_, _)
sync_loop(p, stop_at) ==
    LET consume ==
            UNION {sync_loop(next(p, t), stop_at) : t \in SyncScanned(p)}
    IN  IF p.token.kind \in stop_at
        THEN IF p.pos = p.sync_pos /\ p.sync_count < SyncLimit
             THEN {[p EXCEPT !.sync_count = @ + 1]}
             ELSE IF p.pos > p.sync_pos
             THEN {[p EXCEPT !.sync_pos = p.pos, !.sync_count = 0]}
             ELSE consume
        ELSE IF p.token = EOF THEN {p}
        ELSE consume

\* Parser::sync_stmt
sync_stmt(p) == sync_loop(p, StmtSyncTokens)

\* Parser::sync_decl
sync_decl(p) == sync_loop(p, DeclSyncTokens)

----------------------------------------------------------------------------
(* Synchronization: the parser advances over the source and, after        *)
(* errors, calls sync_stmt and sync_decl.  call.stalls counts the sync     *)
(* calls that have returned, one after the other, without progress since   *)
(* the last sync, and call.forced tells that the call was made after       *)
(* SyncLimit of them.                                                      *)

SyncInit ==
    /\ scopes = TCObjectsNewScopes
    /\ pkgs = TCObjectsNewPkgs
    /\ lobjs = <<>>
    /\ types = <<>>
    /\ decl_infos = <<>>
    /\ checker = NoChecker
    /\ errors = <<>>
    /\ result = TypeInfoNew
    /\ octx = ObjContextNew
    /\ call = [op |-> "none", stalls |-> 0, forced |-> FALSE]
    /\ panicked = FALSE
    /\ parser = ParserNew

\* the count of returns without progress after a sync call from p to q
Stalls(p, q) ==
    IF q.pos = p.pos /\ p.pos = p.sync_pos /\ p.token # EOF
    THEN IF call.stalls < SyncLimit + 1 THEN call.stalls + 1
         ELSE call.stalls
    ELSE 0

\* is the sync call made at a token it stops at, after SyncLimit returns
\* without progress?
Forced(p, stop_at) ==
    /\ p.token.kind \in stop_at
    /\ p.pos = p.sync_pos
    /\ call.stalls >= SyncLimit

SyncAdvance ==
    /\ parser.token # EOF
    /\ \E scanned \in SyncScanned(parser) :
         /\ parser' = next(parser, scanned)
         /\ call' = [op |-> "next", stalls |-> 0, forced |-> FALSE]
    /\ ParserFrame

SyncStmt ==
    /\ \E q \in sync_stmt(parser) :
         /\ parser' = q
         /\ call' = [op |-> "sync_stmt", stalls |-> Stalls(parser, q),
                     forced |-> Forced(parser, StmtSyncTokens)]
    /\ ParserFrame

SyncDecl ==
    /\ \E q \in sync_decl(parser) :
         /\ parser' = q
         /\ call' = [op |-> "sync_decl", stalls |-> Stalls(parser, q),
                     forced |-> Forced(parser, DeclSyncTokens)]
    /\ ParserFrame

SyncNext == SyncAdvance \/ SyncStmt \/ SyncDecl

\* the parser keeps calling sync_stmt
SpecSync == SyncInit /\ [][SyncNext]_vars /\ WF_vars(SyncStmt)

----------------------------------------------------------------------------
(* Claims about sync_stmt and sync_decl *)

\* C18: sync_stmt (and sync_decl) returns at a synchronizing keyword without
\* consuming a token only if the parser has advanced since the last sync or
\* fewer than 10 sync calls have returned at this position without progress;
\* once 10 such returns have happened at one position the next call consumes
\* at least one token, so sync_count never exceeds 10, and no unbounded
\* sequence of sync calls leaves the parser at the same non-EOF position.
C18_SyncMakesProgress ==
    /\ [][/\ parser'.sync_count <= 10
          /\ (call'.op \in {"sync_stmt", "sync_decl"} /\ parser.token # EOF) =>
               /\ parser'.pos = parser.pos =>
                    /\ parser'.token = parser.token
                    /\ parser.token.kind \in
                         (IF call'.op = "sync_stmt" THEN StmtSyncTokens
                          ELSE DeclSyncTokens)
                    /\ (parser.pos > parser.sync_pos \/ call.stalls < 10)
               /\ (parser.pos = parser.sync_pos /\ call.stalls >= 10) =>
                    parser'.pos > parser.pos]_vars
    /\ \A n \in 0..(SyncSrcLen + 1) :
         (parser.pos = n /\ parser.token # EOF) ~> (parser.pos > n)

\* ten sync calls have returned at one keyword without progress and the
\* next one, a sync_stmt, has consumed it and stopped at a later keyword
C18_Witness ==
    /\ call.op = "sync_stmt"
    /\ call.forced
    /\ call.stalls = 0
    /\ parser.sync_count = 0
    /\ parser.sync_pos = parser.pos
    /\ parser.pos > 1
    /\ parser.token.kind \in StmtSyncTokens

----------------------------------------------------------------------------
(* src/parser.rs: safe_pos *)

\* position::File of the parser: its base and its size
FileNew(base, size) == [base |-> base, size |-> size]

\* Parser::safe_pos for the parser's file
safe_pos(file, pos) ==
    LET max == file.base + file.size
    IN  IF pos > max THEN max ELSE pos

----------------------------------------------------------------------------
(* safe_pos is applied to the positions in and around the file of a       *)
(* parser; the file is added to the file set at some base                 *)

SafePosInit ==
    /\ scopes = TCObjectsNewScopes
    /\ pkgs = TCObjectsNewPkgs
    /\ lobjs = <<>>
    /\ types = <<>>
    /\ decl_infos = <<>>
    /\ checker = NoChecker
    /\ errors = <<>>
    /\ result = TypeInfoNew
    /\ octx = ObjContextNew
    /\ \E base \in 0..MaxBase, size \in 0..MaxFileSize :
         call = [op |-> "add_file", file |-> FileNew(base, size)]
    /\ panicked = FALSE
    /\ parser = ParserNew

SafePos ==
    /\ \E pos \in 0..(MaxBase + MaxFileSize + 2) :
         call' = [op |-> "safe_pos", file |-> call.file, pos |-> pos,
                  ret |-> safe_pos(call.file, pos)]
    /\ UNCHANGED <<arenaVars, checkerVars, panicked, parser>>

SafePosNext == SafePos

SpecSafePos == SafePosInit /\ [][SafePosNext]_vars

----------------------------------------------------------------------------
(* Claims about safe_pos *)

\* C19: safe_pos(pos) returns pos unchanged when pos is a valid position of
\* the current file (base <= pos <= base + size) and returns the file's EOF
\* position base + size whenever pos is out of range, on either side; its
\* result is therefore always a valid position of the file.
C19_SafePosIsValid ==
    call.op = "safe_pos" =>
        LET base == call.file.base
            eof == call.file.base + call.file.size
        IN  /\ (base <= call.pos /\ call.pos <= eof) => call.ret = call.pos
            /\ (call.pos < base \/ call.pos > eof) => call.ret = eof
            /\ base <= call.ret /\ call.ret <= eof

----------------------------------------------------------------------------
(* src/parser.rs: label scopes *)

\* Scope::look_up for a label: the entity bound to name in the scope s or
\* in one of the scopes around it
look_up(scs, s, name) == ScopeChainLookup(scs, s, name)

\* line 88: the text of the diagnostic
LabelUndefinedMsg(name) == <<"label ", name, " undefined">>

\* Parser::open_label_scope
open_label_scope(p) ==
    [p EXCEPT !.objects.scopes = ScopeArenaNew(p.label_scope, @),
              !.label_scope = Len(p.objects.scopes) + 1,
              !.target_stack = Append(@, <<>>)]

\* lines 85-91: the loop over the targets v from the j-th on
RECURSIVE check_targets(_, _, _, _)
check_targets(p, scope, v, j) ==
    IF j > Len(v) THEN p
    ELSE LET name == p.objects.idents[v[j]].name
             p1 == IF look_up(p.objects.scopes, scope, name) = None
                   THEN error(p, p.pos, LabelUndefinedMsg(name))
                   ELSE p
         IN  check_targets(p1, scope, v, j + 1)

\* a close_label_scope that leaves no label scope at all
close_label_scope_all(p) ==
    IF p.label_scope = None \/ p.target_stack = <<>>
    THEN [p |-> p, panic |-> TRUE]
    ELSE LET v == p.target_stack[Len(p.target_stack)]
             p1 == [p EXCEPT !.target_stack = SubSeq(@, 1, Len(@) - 1)]
             p2 == check_targets(p1, p.label_scope, v, 1)
         IN  [p |-> [p2 EXCEPT !.label_scope = None], panic |-> FALSE]

\* Parser::close_label_scope: the parser afterwards and whether unwrap() of
\* an absent label scope or the pop of an empty target stack panicked
close_label_scope(p) ==
    IF p.label_scope = None \/ p.target_stack = <<>>
    THEN [p |-> p, panic |-> TRUE]
    ELSE LET v == p.target_stack[Len(p.target_stack)]
             p1 == [p EXCEPT !.target_stack = SubSeq(@, 1, Len(@) - 1)]
             p2 == check_targets(p1, p.label_scope, v, 1)
         IN  [p |-> [p2 EXCEPT !.label_scope =
                                   p.objects.scopes[p.label_scope].outer],
              panic |-> FALSE]

----------------------------------------------------------------------------
(* Labels: in the body of a function label scopes are opened and closed,  *)
(* labels are declared in the label scope and the targets of branch       *)
(* statements are collected.  call.saved is the stack of the values       *)
(* label_scope had before the open calls that are not yet closed.         *)

LabelInit ==
    /\ scopes = TCObjectsNewScopes
    /\ pkgs = TCObjectsNewPkgs
    /\ lobjs = <<>>
    /\ types = <<>>
    /\ decl_infos = <<>>
    /\ checker = NoChecker
    /\ errors = <<>>
    /\ result = TypeInfoNew
    /\ octx = ObjContextNew
    /\ call = [op |-> "none", saved |-> <<>>]
    /\ panicked = FALSE
    /\ parser = ParserNew

OpenLabelScope ==
    /\ ~panicked
    /\ Len(parser.objects.scopes) < MaxLabelScopes
    /\ parser' = open_label_scope(parser)
    /\ call' = [op |-> "open_label_scope",
                saved |-> Append(call.saved, parser.label_scope)]
    /\ ParserFrame

CloseLabelScope ==
    /\ ~panicked
    /\ LET r == close_label_scope(parser)
       IN  /\ parser' = r.p
           /\ panicked' = r.panic
           /\ call' = [op |-> "close_label_scope",
                       saved |-> IF r.panic THEN call.saved
                                 ELSE SubSeq(call.saved, 1,
                                             Len(call.saved) - 1)]
    /\ UNCHANGED <<arenaVars, checkerVars>>

\* a labeled statement: its label is parsed and declared in the label scope
DeclareLabel ==
    /\ ~panicked
    /\ parser.label_scope # None
    /\ Len(parser.objects.idents) < MaxLhsIdents
    /\ LET p0 == parse_ident(parser, BlockToken(parser.pos + 1))
           idents == <<Len(p0.objects.idents)>>
           decl == Len(p0.objects.specs) + 1
           p1 == [p0 EXCEPT !.objects.specs = Append(@, [names |-> idents])]
       IN  /\ parser' = declare(p1, decl, "NoData", "Lbl",
                                parser.label_scope, idents, 1)
           /\ call' = [op |-> "declare", idents |-> idents, kind |-> "Lbl",
                       scope_ind |-> parser.label_scope,
                       saved |-> call.saved]
    /\ ParserFrame

\* a branch statement: its label is parsed and added to the targets of the
\* innermost label scope
AddTarget ==
    /\ ~panicked
    /\ parser.target_stack # <<>>
    /\ Len(parser.objects.idents) < MaxLhsIdents
    /\ LET n == Len(parser.target_stack)
           p0 == parse_ident(parser, BlockToken(parser.pos + 1))
           id == Len(p0.objects.idents)
       IN  /\ Len(parser.target_stack[n]) < MaxTargets
           /\ parser' = [p0 EXCEPT !.target_stack[n] = Append(@, id)]
           /\ call' = [op |-> "add_target", id |-> id, saved |-> call.saved]
    /\ ParserFrame

LabelNext ==
    OpenLabelScope \/ CloseLabelScope \/ DeclareLabel \/ AddTarget

SpecLabel == LabelInit /\ [][LabelNext]_vars

----------------------------------------------------------------------------
(* Claims about label scopes *)

\* the nesting depth of the chain of scopes from s outward
RECURSIVE ChainDepth(_, _)
ChainDepth(scs, s) ==
    IF s = None THEN 0 ELSE 1 + ChainDepth(scs, scs[s].outer)

\* C20: after any sequence of open_label_scope and close_label_scope calls
\* in which every close has an earlier unmatched open, the length of
\* target_stack equals the nesting depth of the label_scope chain (both zero
\* when label_scope is absent), each close restores label_scope to the value
\* it had just before the matching open, and a close reports a "label
\* undefined" diagnostic only for targets collected in the list popped for
\* that scope.
C20_LabelScopesNest ==
    [][~panicked' =>
        /\ Len(parser'.target_stack) =
             ChainDepth(parser'.objects.scopes, parser'.label_scope)
        /\ (parser'.label_scope = None) <=> (parser'.target_stack = <<>>)
        /\ call'.op = "close_label_scope" =>
             LET popped == parser.target_stack[Len(parser.target_stack)]
             IN  /\ parser'.label_scope = call.saved[Len(call.saved)]
                 /\ parser'.target_stack =
                      SubSeq(parser.target_stack, 1,
                             Len(parser.target_stack) - 1)
                 /\ \A k \in 1..Len(AddedErrors) :
                      \E j \in 1..Len(popped) :
                        LET name == parser.objects.idents[popped[j]].name
                        IN  /\ AddedErrors[k].msg =
                                 <<"label ", name, " undefined">>
                            /\ name \notin
                                 DOMAIN parser.objects.scopes[
                                          parser.label_scope].entities]_vars

\* the inner one of two nested label scopes has been closed: the outer one
\* is the label scope again, its list of targets is still on the stack, and
\* the undefined label among the inner targets has been reported
C20_Witness ==
    /\ call.op = "close_label_scope"
    /\ ~panicked
    /\ parser.label_scope # None
    /\ Len(parser.target_stack) = 1
    /\ Len(parser.target_stack[1]) > 0
    /\ Len(call.saved) = 1
    /\ Len(parser.errors) > 0
    /\ parser.errors[Len(parser.errors)].msg[1] = "label "
    /\ DOMAIN parser.objects.scopes[parser.label_scope].entities # {}

====
